---- MODULE Spec2Model ----
(***************************************************************************)
(* Model of src/GitHub/recursive_composite_scanner.py: the reference       *)
(* codec, the action-definition inspector and the traversal                *)
(* recursively_discover_actions.                                           *)
(*                                                                         *)
(* Python strings are sequences of one-character strings.  A value loaded  *)
(* by yaml.safe_load is a tagged record:                                   *)
(*   [t |-> "null"]            None                                        *)
(*   [t |-> "str", v |-> s]    a str (s a character sequence)              *)
(*   [t |-> "int", v |-> n]    a non-string scalar                         *)
(*   [t |-> "seq", v |-> q]    a list of values                            *)
(*   [t |-> "map", v |-> f]    a dict, f a function from its keys          *)
(***************************************************************************)
EXTENDS Naturals, Sequences, FiniteSets, TLC

VARIABLES
  pc,                  \* position in recursively_discover_actions
  repos,               \* the remote world: reference -> repository content
  workflows,           \* the root repository's workflow documents
  to_visit,            \* line 280
  visited,             \* line 281
  all_discovered,      \* line 282
  dependencies_graph,  \* line 284: key -> set of children
  docker_warnings_map, \* line 288: key -> sequence of warnings
  cur,                 \* (owner, repo, version) of the running iteration
  acquired,            \* reference -> number of clone_repo calls
  inspected,           \* reference -> number of inspector calls
  printed,             \* reference -> number of WARNING lines printed
  iterations,          \* number of drain-loop iterations started
  in_file,             \* a single call: its argument (the inspector's Path)
  out                  \* a single call: its outcome

vars == <<pc, repos, workflows, to_visit, visited, all_discovered,
          dependencies_graph, docker_warnings_map, cur, acquired, inspected,
          printed, iterations, in_file, out>>

(***************************************************************************)
(* Bounds of the model.                                                    *)
(***************************************************************************)
MaxSteps == 2
MaxLines == 2

(***************************************************************************)
(* String literals of the source.                                          *)
(***************************************************************************)
S_docker_prefix == <<"d", "o", "c", "k", "e", "r", ":", "/", "/">>
S_sha256 == <<"@", "s", "h", "a", "2", "5", "6", ":">>
S_FROM == <<"F", "R", "O", "M", " ">>
S_Dockerfile == <<"D", "o", "c", "k", "e", "r", "f", "i", "l", "e">>
S_docker == <<"d", "o", "c", "k", "e", "r">>
S_composite == <<"c", "o", "m", "p", "o", "s", "i", "t", "e">>
S_action_yml == <<"a", "c", "t", "i", "o", "n", ".", "y", "m", "l">>
S_action_yaml == <<"a", "c", "t", "i", "o", "n", ".", "y", "a", "m", "l">>
S_MAIN_REPO == <<"_", "_", "M", "A", "I", "N", "_", "R", "E", "P", "O", "_", "_">>
W_unpinned_image == <<"U", "n", "p", "i", "n", "n", "e", "d", " ", "D", "o", "c",
  "k", "e", "r", " ", "i", "m", "a", "g", "e", " ", "=", ">", " ">>
W_unpinned_from == <<"U", "n", "p", "i", "n", "n", "e", "d", " ", "D", "o", "c",
  "k", "e", "r", " ", "F", "R", "O", "M", " ", "=", ">", " ", "'">>
W_could_not_read == <<"C", "o", "u", "l", "d", " ", "n", "o", "t", " ", "r", "e",
  "a", "d", " ", "D", "o", "c", "k", "e", "r", "f", "i", "l", "e", ":", " ">>
W_could_not_parse == <<"C", "o", "u", "l", "d", " ", "n", "o", "t", " ", "p", "a",
  "r", "s", "e", " ">>
W_no_dockerfile == <<"r", "u", "n", "s", ".", "i", "m", "a", "g", "e", "=", "'",
  "D", "o", "c", "k", "e", "r", "f", "i", "l", "e", "'", " ", "b", "u", "t", " ",
  "n", "o", " ", "D", "o", "c", "k", "e", "r", "f", "i", "l", "e", " ", "f", "o",
  "u", "n", "d", " ", "i", "n", " ", "r", "o", "o", "t", ".">>

(***************************************************************************)
(* Python str operations.                                                  *)
(***************************************************************************)
\* s.startswith(p)
StartsWith(s, p) ==
  /\ Len(p) <= Len(s)
  /\ SubSeq(s, 1, Len(p)) = p

\* sub in s, for two strings
Contains(s, sub) ==
  \E i \in 0..(Len(s) - Len(sub)) : SubSeq(s, i + 1, i + Len(sub)) = sub

\* the first index of character c in s, 0 when there is none
FirstIndex(s, c) ==
  IF \E i \in 1..Len(s) : s[i] = c
    THEN CHOOSE i \in 1..Len(s) : s[i] = c /\ \A j \in 1..(i - 1) : s[j] # c
    ELSE 0

\* the characters str.strip() removes
IsSpace(c) == c \in {" ", "\t", "\n", "\r"}

\* s.strip()
Strip(s) ==
  IF \A i \in 1..Len(s) : IsSpace(s[i])
    THEN << >>
    ELSE LET a == CHOOSE i \in 1..Len(s) :
                    ~IsSpace(s[i]) /\ \A j \in 1..(i - 1) : IsSpace(s[j])
             b == CHOOSE i \in 1..Len(s) :
                    ~IsSpace(s[i]) /\ \A j \in (i + 1)..Len(s) : IsSpace(s[j])
         IN SubSeq(s, a, b)

LowerCase == <<"a", "b", "c", "d", "e", "f", "g", "h", "i", "j", "k", "l", "m",
  "n", "o", "p", "q", "r", "s", "t", "u", "v", "w", "x", "y", "z">>
UpperCase == <<"A", "B", "C", "D", "E", "F", "G", "H", "I", "J", "K", "L", "M",
  "N", "O", "P", "Q", "R", "S", "T", "U", "V", "W", "X", "Y", "Z">>

\* s.upper()
Upper(s) ==
  [i \in 1..Len(s) |->
     IF \E k \in 1..26 : LowerCase[k] = s[i]
       THEN UpperCase[CHOOSE k \in 1..26 : LowerCase[k] = s[i]]
       ELSE s[i]]

(***************************************************************************)
(* Loaded YAML values.                                                     *)
(***************************************************************************)
Null == [t |-> "null"]
Str(s) == [t |-> "str", v |-> s]
Int(n) == [t |-> "int", v |-> n]
List(q) == [t |-> "seq", v |-> q]
Map(f) == [t |-> "map", v |-> f]
EmptyMap == Map(<< >>)

\* isinstance(x, dict) / isinstance(x, list) / isinstance(x, str)
IsDict(x) == x.t = "map"
IsList(x) == x.t = "seq"
IsStr(x) == x.t = "str"

\* d.get(k, default) on a dict d
Get(d, k, default) == IF k \in DOMAIN d.v THEN d.v[k] ELSE default

\* the truth value Python gives x in `if x`
Truthy(x) ==
  CASE x.t = "null" -> FALSE
    [] x.t = "int" -> x.v # 0
    [] x.t = "str" -> x.v # << >>
    [] x.t = "seq" -> x.v # << >>
    [] x.t = "map" -> DOMAIN x.v # {}

(***************************************************************************)
(* ACTION SCANNING: the reference codec.                                   *)
(***************************************************************************)
\* c in x, for a one-character string c and a loaded value x that `in`
\* accepts: substring of a str, element of a list, key of a dict
In(c, x) ==
  CASE x.t = "str" -> \E i \in 1..Len(x.v) : x.v[i] = c
    [] x.t = "seq" -> \E i \in 1..Len(x.v) : x.v[i].t = "str" /\ x.v[i].v = <<c>>
    [] x.t = "map" -> c \in DOMAIN x.v
    [] OTHER -> FALSE

\* is_external_action(uses_value): `in` raises TypeError on a scalar that is
\* not iterable
is_external_action(uses_value) ==
  IF uses_value.t \in {"int", "null"}
    THEN [exc |-> "TypeError", value |-> FALSE]
    ELSE [exc |-> "none", value |-> In("/", uses_value) /\ In("@", uses_value)]

\* re.match(r"^([^/]+)/([^@]+)@(.+)$", s) on a str s: the groups, or no match.
\* "." excludes the newline and "$" also matches before one final newline.
DropFinalNewline(tail) ==
  IF tail # << >> /\ tail[Len(tail)] = "\n"
    THEN SubSeq(tail, 1, Len(tail) - 1)
    ELSE tail

MatchGroups(g1, g2, g3) ==
  IF g1 # << >> /\ g2 # << >> /\ g3 # << >> /\ FirstIndex(g3, "\n") = 0
    THEN [match |-> TRUE, groups |-> <<g1, g2, g3>>]
    ELSE [match |-> FALSE, groups |-> << >>]

MatchAfterSlash(g1, rest, j) ==
  IF j = 0
    THEN [match |-> FALSE, groups |-> << >>]
    ELSE MatchGroups(g1, SubSeq(rest, 1, j - 1),
                     DropFinalNewline(SubSeq(rest, j + 1, Len(rest))))

MatchAtSlash(s, i) ==
  IF i = 0
    THEN [match |-> FALSE, groups |-> << >>]
    ELSE MatchAfterSlash(SubSeq(s, 1, i - 1), SubSeq(s, i + 1, Len(s)),
                         FirstIndex(SubSeq(s, i + 1, Len(s)), "@"))

MatchUses(s) == MatchAtSlash(s, FirstIndex(s, "/"))

\* parse_uses_value(uses_value): ValueError when the pattern does not match;
\* re.match raises TypeError on a value that is not a str
ParseResult(m) ==
  IF m.match
    THEN [exc |-> "none", value |-> m.groups]
    ELSE [exc |-> "ValueError", value |-> << >>]

parse_uses_value(uses_value) ==
  IF ~IsStr(uses_value)
    THEN [exc |-> "TypeError", value |-> << >>]
    ELSE ParseResult(MatchUses(uses_value.v))

\* key_to_str(k)
key_to_str(k) ==
  IF k[1] = S_MAIN_REPO
    THEN <<"M", "a", "i", "n", " ", "R", "e", "p", "o", "s", "i", "t", "o", "r", "y">>
    ELSE k[1] \o <<"/">> \o k[2] \o <<"@">> \o k[3]

\* lines 139-143 and 217-221 without the except clause: the ValueError of
\* parse_uses_value escapes
AddParsed_Uncaught(ext, parsed) ==
  CASE ext.exc # "none" -> [exc |-> ext.exc, found |-> {}]
    [] ~ext.value -> [exc |-> "none", found |-> {}]
    [] parsed.exc = "none" -> [exc |-> "none", found |-> {parsed.value}]
    [] OTHER -> [exc |-> parsed.exc, found |-> {}]

\* lines 138-143 and 216-221: one step's uses value.  The outcome is the
\* references found, or the exception that escapes.
NoneFound == [exc |-> "none", found |-> {}]
AddParsed(ext, parsed) ==
  CASE ext.exc # "none" -> [exc |-> ext.exc, found |-> {}]
    [] ~ext.value -> NoneFound
    [] parsed.exc = "none" -> [exc |-> "none", found |-> {parsed.value}]
    [] parsed.exc = "ValueError" -> NoneFound
    [] OTHER -> [exc |-> parsed.exc, found |-> {}]

ScanUsesValue(uses_val) ==
  IF ~Truthy(uses_val)
    THEN NoneFound
    ELSE AddParsed(is_external_action(uses_val), parse_uses_value(uses_val))

ScanUses(step) == ScanUsesValue(Get(step, "uses", Null))

\* lines 139-141 and 217-219: the values the scan of one uses value passes to
\* parse_uses_value
PassedIfExternal(uses_val, ext) ==
  IF ext.exc = "none" /\ ext.value THEN {uses_val} ELSE {}

ParseArguments(uses_val) ==
  IF ~Truthy(uses_val)
    THEN {}
    ELSE PassedIfExternal(uses_val, is_external_action(uses_val))

\* the outcome of one part of a walk followed by the rest of it
Then(one, more) ==
  IF one.exc # "none"
    THEN one
    ELSE [exc |-> more.exc, found |-> one.found \cup more.found]

\* the outcome of a walk over parts in no particular order
Gather(scans) ==
  IF \E sc \in scans : sc.exc # "none"
    THEN [exc |-> (CHOOSE sc \in scans : sc.exc # "none").exc, found |-> {}]
    ELSE [exc |-> "none", found |-> UNION {sc.found : sc \in scans}]

(***************************************************************************)
(* Files.  A directory is a function from file names to files; a file is   *)
(*   [kind |-> "yaml", doc |-> value]   text yaml.safe_load parses         *)
(*   [kind |-> "yaml_error"]            text it raises on                  *)
(*   [kind |-> "text", lines |-> q]     the lines iteration yields         *)
(*   [kind |-> "unreadable"]            open() raises                      *)
(* A Path is [parent |-> directory, name |-> file name].                   *)
(***************************************************************************)
YamlFile(doc) == [kind |-> "yaml", doc |-> doc]
YamlError == [kind |-> "yaml_error"]
TextFile(lines) == [kind |-> "text", lines |-> lines]
Unreadable == [kind |-> "unreadable"]

\* the text of the exception a failed read or parse raises
S_err == <<"e", "r", "r">>

\* Path.name as a str
NameOf(path) ==
  CASE path.name = "action.yml" -> S_action_yml
    [] path.name = "action.yaml" -> S_action_yaml
    [] OTHER -> S_Dockerfile

\* Path.is_file()
is_file(path) == path.name \in DOMAIN path.parent

\* is_unpinned_docker_image with the digest test inverted
is_unpinned_docker_image_Inverted(image_str) ==
  IF ~StartsWith(image_str, S_docker_prefix)
    THEN FALSE
    ELSE Contains(SubSeq(image_str, Len(S_docker_prefix) + 1, Len(image_str)), S_sha256)

\* is_unpinned_docker_image(image_str)
is_unpinned_docker_image(image_str) ==
  IF ~StartsWith(image_str, S_docker_prefix)
    THEN FALSE
    ELSE LET ref == SubSeq(image_str, Len(S_docker_prefix) + 1, Len(image_str))
         IN ~Contains(ref, S_sha256)

\* lines 160-164: the warnings of lines[i..]
RECURSIVE FromWarnings(_, _)
FromWarning(ref) ==
  IF ~Contains(ref, S_sha256)
    THEN <<W_unpinned_from \o ref \o <<"'">>>>
    ELSE << >>

LineWarnings(stripped) ==
  IF StartsWith(Upper(stripped), S_FROM)
    THEN FromWarning(Strip(SubSeq(stripped, 6, Len(stripped))))
    ELSE << >>

FromWarnings(lines, i) ==
  IF i > Len(lines)
    THEN << >>
    ELSE LineWarnings(Strip(lines[i])) \o FromWarnings(lines, i + 1)

\* analyze_dockerfile(dockerfile_path)
ReadDockerfile(f) ==
  IF f.kind = "text"
    THEN FromWarnings(f.lines, 1)
    ELSE <<W_could_not_read \o S_err>>

analyze_dockerfile(dockerfile_path) ==
  ReadDockerfile(dockerfile_path.parent[dockerfile_path.name])

\* find_top_level_action_file(repo_dir): the Path found, or None
NoPath == [parent |-> << >>, name |-> "None"]
find_top_level_action_file(repo_dir) ==
  IF "action.yml" \in DOMAIN repo_dir
    THEN [parent |-> repo_dir, name |-> "action.yml"]
    ELSE IF "action.yaml" \in DOMAIN repo_dir
      THEN [parent |-> repo_dir, name |-> "action.yaml"]
      ELSE NoPath

\* lines 215-221: the composite walk of steps[i..], which calls step.get on
\* every element (AttributeError on one that is not a dict)
RECURSIVE CompositeWalk(_, _)
CompositeWalk(steps, i) ==
  IF i > Len(steps)
    THEN NoneFound
    ELSE IF ~IsDict(steps[i])
      THEN [exc |-> "AttributeError", found |-> {}]
      ELSE Then(ScanUses(steps[i]), CompositeWalk(steps, i + 1))

\* lines 197-210: the warnings of a definition with using == "docker"
DockerfileWarns(df_path) ==
  IF is_file(df_path)
    THEN analyze_dockerfile(df_path)
    ELSE <<W_no_dockerfile>>

\* lines 201-203 without the digest test: every docker:// image is reported
ImageWarns_IgnoresDigest(action_file, image) ==
  CASE ~IsStr(image) -> << >>
    [] StartsWith(image.v, S_docker_prefix) -> <<W_unpinned_image \o image.v>>
    [] image.v = S_Dockerfile ->
         DockerfileWarns([parent |-> action_file.parent, name |-> "Dockerfile"])
    [] OTHER -> << >>

ImageWarns(action_file, image) ==
  CASE ~IsStr(image) -> << >>
    [] StartsWith(image.v, S_docker_prefix) ->
         IF is_unpinned_docker_image(image.v)
           THEN <<W_unpinned_image \o image.v>>
           ELSE << >>
    [] image.v = S_Dockerfile ->
         DockerfileWarns([parent |-> action_file.parent, name |-> "Dockerfile"])
    [] OTHER -> << >>

DockerWarns(action_file, runs) == ImageWarns(action_file, Get(runs, "image", Null))

\* get_actions_and_docker_warnings_from_action_file(action_file): the pair
\* returned, or the exception that escapes (exc # "none")
Returned(discovered, docker_warns) ==
  [exc |-> "none", discovered |-> discovered, docker_warns |-> docker_warns]
Raised(exc) == [exc |-> exc, discovered |-> {}, docker_warns |-> << >>]

\* lines 212-222
CompositeResult(walk) ==
  IF walk.exc = "none" THEN Returned(walk.found, << >>) ELSE Raised(walk.exc)

CompositeSteps(steps) ==
  IF IsList(steps)
    THEN CompositeResult(CompositeWalk(steps.v, 1))
    ELSE Returned({}, << >>)

\* lines 195-222 with the steps walked for using == "docker" as well
InspectUsing_DockerWalksSteps(action_file, runs, using) ==
  CASE IsStr(using) /\ using.v \in {S_docker, S_composite} ->
         CompositeSteps(Get(runs, "steps", List(<< >>)))
    [] OTHER -> Returned({}, << >>)

\* lines 195-222
InspectUsing(action_file, runs, using) ==
  CASE IsStr(using) /\ using.v = S_docker ->
         Returned({}, DockerWarns(action_file, runs))
    [] IsStr(using) /\ using.v = S_composite ->
         CompositeSteps(Get(runs, "steps", List(<< >>)))
    [] OTHER -> Returned({}, << >>)

\* lines 191-195
InspectRuns(action_file, runs) ==
  IF ~IsDict(runs)
    THEN Returned({}, << >>)
    ELSE InspectUsing(action_file, runs, Get(runs, "using", Null))

\* lines 182-191
InspectFile(action_file, f) ==
  CASE f.kind # "yaml" ->
         Returned({}, <<W_could_not_parse \o NameOf(action_file) \o <<":", " ">> \o S_err>>)
    [] ~IsDict(f.doc) -> Returned({}, << >>)
    [] OTHER -> InspectRuns(action_file, Get(f.doc, "runs", EmptyMap))

get_actions_and_docker_warnings_from_action_file(action_file) ==
  InspectFile(action_file, action_file.parent[action_file.name])

\* lines 135-143: the workflow scanner's walk of steps[i..], which skips an
\* element that is not a dict
RECURSIVE WorkflowWalk(_, _)
WorkflowWalk(steps, i) ==
  IF i > Len(steps)
    THEN NoneFound
    ELSE Then(IF IsDict(steps[i]) THEN ScanUses(steps[i]) ELSE NoneFound,
              WorkflowWalk(steps, i + 1))

\* lines 130-143: one job of a workflow document
ScanSteps(steps) ==
  IF ~IsList(steps) THEN NoneFound ELSE WorkflowWalk(steps.v, 1)

ScanJob(job_data) ==
  IF ~IsDict(job_data)
    THEN NoneFound
    ELSE ScanSteps(Get(job_data, "steps", List(<< >>)))

\* lines 118-143: one workflow file
ScanJobs(jobs) ==
  IF ~IsDict(jobs)
    THEN NoneFound
    ELSE Gather({ScanJob(jobs.v[k]) : k \in DOMAIN jobs.v})

ScanWorkflow(wf) ==
  IF wf.kind # "yaml" \/ ~IsDict(wf.doc)
    THEN NoneFound
    ELSE ScanJobs(Get(wf.doc, "jobs", EmptyMap))

\* get_actions_from_workflows(repo_dir), on the workflow files
\* find_workflow_files(repo_dir) returns
get_actions_from_workflows(files) ==
  Gather({ScanWorkflow(files[i]) : i \in 1..Len(files)})

(***************************************************************************)
(* The remote world of a run.  A repository is                             *)
(*   [clone_ok |-> whether clone, fetch and checkout succeed,              *)
(*    dir |-> the directory a successful checkout leaves]                  *)
(***************************************************************************)
U_checkout == <<"a", "c", "t", "i", "o", "n", "s", "/", "c", "h", "e", "c", "k",
  "o", "u", "t", "@", "v", "4">>
U_build == <<"o", "r", "g", "/", "b", "u", "i", "l", "d", "@", "v", "1">>
U_shared == <<"o", "r", "g", "/", "s", "h", "a", "r", "e", "d", "@", "v", "2">>
UsesStrings == {U_checkout, U_build, U_shared}

K_checkout == parse_uses_value(Str(U_checkout)).value
K_build == parse_uses_value(Str(U_build)).value
K_shared == parse_uses_value(Str(U_shared)).value
Refs == {K_checkout, K_build, K_shared}

S_alpine == <<"d", "o", "c", "k", "e", "r", ":", "/", "/", "a", "l", "p", "i",
  "n", "e", ":", "3", ".", "1", "8">>
S_alpine_pinned == <<"d", "o", "c", "k", "e", "r", ":", "/", "/", "a", "l", "p",
  "i", "n", "e", "@", "s", "h", "a", "2", "5", "6", ":", "a", "b">>
S_node20 == <<"n", "o", "d", "e", "2", "0">>
S_echo == <<"e", "c", "h", "o">>

\* a set of values as a list, in some fixed order
RECURSIVE SeqOf(_)
SeqOf(S) ==
  IF S = {}
    THEN << >>
    ELSE LET x == CHOOSE y \in S : TRUE
         IN <<x>> \o SeqOf(S \ {x})

UsesStep(u) == Map([uses |-> Str(u)])
ActionDoc(runs) == YamlFile(Map([runs |-> runs]))
Cloned(dir) == [clone_ok |-> TRUE, dir |-> dir]

R_clone_fails == [clone_ok |-> FALSE, dir |-> << >>]
R_no_file == Cloned(<< >>)
R_unparseable == Cloned("action.yml" :> YamlError)
R_node == Cloned("action.yml" :> ActionDoc(Map([using |-> Str(S_node20)])))
R_docker_unpinned ==
  Cloned("action.yml" :> ActionDoc(Map([using |-> Str(S_docker), image |-> Str(S_alpine)])))
R_docker_steps ==
  Cloned("action.yaml" :> ActionDoc(Map([using |-> Str(S_docker),
                                         image |-> Str(S_alpine_pinned),
                                         steps |-> List(<<UsesStep(U_build)>>)])))
R_bad_step ==
  Cloned("action.yml" :> ActionDoc(Map([using |-> Str(S_composite),
                                        steps |-> List(<<Str(S_echo)>>)])))
R_composite(S) ==
  Cloned("action.yml" :> ActionDoc(Map([using |-> Str(S_composite),
                                        steps |-> List(SeqOf({UsesStep(u) : u \in S}))])))

Repos ==
  {R_clone_fails, R_no_file, R_unparseable, R_node, R_docker_unpinned,
   R_docker_steps, R_bad_step}
  \cup {R_composite(S) : S \in {T \in SUBSET UsesStrings : Cardinality(T) <= MaxSteps}}

\* the root repository's .github/workflows: one document, one job
WorkflowFile(S) ==
  YamlFile(Map([jobs |-> Map([build |-> Map([steps |-> List(SeqOf({UsesStep(u) : u \in S}))])])]))
RootWorkflows == {<<WorkflowFile(S)>> : S \in SUBSET UsesStrings}

(***************************************************************************)
(* CLONE & CHECKOUT                                                        *)
(***************************************************************************)
\* s.replace(a, b) for one-character a and b
Replace(s, a, b) == [i \in 1..Len(s) |-> IF s[i] = a THEN b ELSE s[i]]

\* line 232
clone_name(owner, repo, version) ==
  Replace(Replace(owner \o <<"_">> \o repo \o <<"_">> \o version, "/", "_"), "@", "_")

\* clone_repo(owner, repo, version, base_dir): the path returned and the
\* directory now at it, or the exception raised
clone_repo(owner, repo, version) ==
  LET remote == repos[<<owner, repo, version>>]
  IN IF remote.clone_ok
       THEN [exc |-> "none", clone_path |-> clone_name(owner, repo, version),
             dir |-> remote.dir]
       ELSE [exc |-> "RuntimeError", clone_path |-> << >>, dir |-> << >>]

(***************************************************************************)
(* RECURSIVE DISCOVERY: recursively_discover_actions                       *)
(***************************************************************************)
MAIN_KEY == <<S_MAIN_REPO, << >>, << >>>>
None == <<"None">>
NoCall == [exc |-> "not called"]

\* d.setdefault(k, default), as the dict it leaves
setdefault(d, k, default) == IF k \in DOMAIN d THEN d ELSE d @@ (k :> default)

\* line 297 left out
EnsureGraphEntry_Missing(graph, key) == graph

\* line 297
EnsureGraphEntry(graph, key) == setdefault(graph, key, {})

\* line 298 left out
EnsureWarningsEntry_Missing(wmap, key) == wmap

\* line 298
EnsureWarningsEntry(wmap, key) == setdefault(wmap, key, << >>)

\* line 321 moved under the test of line 322: an edge only to a new reference
AddChildren_OnlyNew(graph, key, sub_actions) ==
  [graph EXCEPT ![key] = @ \cup (sub_actions \ all_discovered)]

\* line 321 skipped for a child already visited
AddChildren_OnlyUnvisited(graph, key, sub_actions) ==
  [graph EXCEPT ![key] = @ \cup (sub_actions \ visited)]

\* line 321 adding every sa to the root's child set as well
AddChildren_AlsoRoot(graph, key, sub_actions) ==
  [graph EXCEPT ![key] = @ \cup sub_actions, ![MAIN_KEY] = @ \cup sub_actions]

\* line 321, for every sa of sub_actions
AddChildren(graph, key, sub_actions) ==
  [graph EXCEPT ![key] = @ \cup sub_actions]

\* line 322 with the test inverted
NewlyDiscovered_Inverted(sub_actions, discovered) == sub_actions \cap discovered

\* line 322 testing the worklist instead of all_discovered
NewlyDiscovered_OnlyQueued(sub_actions, discovered) == sub_actions \ to_visit

\* line 322 without the test: every sub-action is added
NewlyDiscovered_All(sub_actions, discovered) == sub_actions

\* line 322: the sub-actions the loop adds to all_discovered and to_visit
NewlyDiscovered(sub_actions, discovered) == sub_actions \ discovered

\* lines 317-318 writing under the root key instead of the popped one
ExtendWarnings_AtRoot(wmap, key, docker_warns) ==
  [wmap EXCEPT ![MAIN_KEY] = @ \o docker_warns]

\* lines 317-318
ExtendWarnings(wmap, key, docker_warns) ==
  [wmap EXCEPT ![key] = @ \o docker_warns]

Init ==
  /\ pc = "start"
  /\ repos \in [Refs -> Repos]
  /\ workflows \in RootWorkflows
  /\ to_visit = {}
  /\ visited = {}
  /\ all_discovered = {}
  /\ dependencies_graph = << >>
  /\ docker_warnings_map = << >>
  /\ cur = None
  /\ acquired = [r \in Refs |-> 0]
  /\ inspected = [r \in Refs |-> 0]
  /\ printed = [r \in Refs |-> 0]
  /\ iterations = 0
  /\ in_file = NoPath
  /\ out = NoCall

\* line 276 raising: the root repository cannot be cloned
CloneRootFails ==
  /\ pc = "start"
  /\ pc' = "fatal"
  /\ UNCHANGED <<repos, workflows, to_visit, visited, all_discovered,
                 dependencies_graph, docker_warnings_map, cur, acquired,
                 inspected, printed, iterations, in_file, out>>

\* lines 276-289: clone the root, scan its workflows, seed the traversal
SeedWith(scan) ==
  IF scan.exc # "none"
    THEN /\ pc' = "aborted"
         /\ UNCHANGED <<to_visit, visited, all_discovered,
                        dependencies_graph, docker_warnings_map>>
    ELSE /\ pc' = "loop"
         /\ to_visit' = scan.found
         /\ visited' = {}
         /\ all_discovered' = scan.found
         /\ dependencies_graph' = (MAIN_KEY :> scan.found)
         /\ docker_warnings_map' = (MAIN_KEY :> << >>)

Seed ==
  /\ pc = "start"
  /\ SeedWith(get_actions_from_workflows(workflows))
  /\ UNCHANGED <<repos, workflows, cur, acquired, inspected, printed,
                 iterations, in_file, out>>

\* lines 292-295 reading the worklist without removing from it and without
\* the visited test
Pop_Peek(r) ==
  /\ pc = "loop"
  /\ r \in to_visit
  /\ iterations' = iterations + 1
  /\ visited' = visited \cup {r}
  /\ dependencies_graph' = EnsureGraphEntry(dependencies_graph, r)
  /\ docker_warnings_map' = EnsureWarningsEntry(docker_warnings_map, r)
  /\ cur' = r
  /\ pc' = "acquire"
  /\ UNCHANGED <<repos, workflows, to_visit, all_discovered, acquired,
                 inspected, printed, in_file, out>>

\* lines 292-298 with line 295 left out: the popped reference is not marked
\* visited
Pop_NotMarked(r) ==
  /\ pc = "loop"
  /\ r \in to_visit
  /\ to_visit' = to_visit \ {r}
  /\ iterations' = iterations + 1
  /\ IF r \in visited
       THEN UNCHANGED <<pc, visited, dependencies_graph, docker_warnings_map, cur>>
       ELSE /\ UNCHANGED visited
            /\ dependencies_graph' = EnsureGraphEntry(dependencies_graph, r)
            /\ docker_warnings_map' = EnsureWarningsEntry(docker_warnings_map, r)
            /\ cur' = r
            /\ pc' = "acquire"
  /\ UNCHANGED <<repos, workflows, all_discovered, acquired, inspected,
                 printed, in_file, out>>

\* lines 291-298: pop a reference; skip it when visited, else mark it
\* visited and give it its graph and warnings entries
Pop(r) ==
  /\ pc = "loop"
  /\ r \in to_visit
  /\ to_visit' = to_visit \ {r}
  /\ iterations' = iterations + 1
  /\ IF r \in visited
       THEN UNCHANGED <<pc, visited, dependencies_graph, docker_warnings_map, cur>>
       ELSE /\ visited' = visited \cup {r}
            /\ dependencies_graph' = EnsureGraphEntry(dependencies_graph, r)
            /\ docker_warnings_map' = EnsureWarningsEntry(docker_warnings_map, r)
            /\ cur' = r
            /\ pc' = "acquire"
  /\ UNCHANGED <<repos, workflows, all_discovered, acquired, inspected,
                 printed, in_file, out>>

\* lines 303-309 without the handler: the exception escapes
OnCloneFailure_Escapes ==
  /\ pc' = "aborted"
  /\ UNCHANGED printed

\* lines 303-309: the handler of a clone_repo exception prints the warning
\* and continues the loop
OnCloneFailure ==
  /\ printed' = [printed EXCEPT ![cur] = @ + 1]
  /\ pc' = "loop"

\* lines 301-309: clone_repo; on an exception print the warning and continue
Acquire ==
  /\ pc = "acquire"
  /\ acquired' = [acquired EXCEPT ![cur] = @ + 1]
  /\ IF clone_repo(cur[1], cur[2], cur[3]).exc # "none"
       THEN OnCloneFailure
       ELSE /\ pc' = "inspect"
            /\ UNCHANGED printed
  /\ UNCHANGED <<repos, workflows, to_visit, visited, all_discovered,
                 dependencies_graph, docker_warnings_map, cur, inspected,
                 iterations, in_file, out>>

\* lines 311-324: find the action file, inspect it, record warnings, edges
\* and new references; an exception of the inspector escapes the function
Record(res) ==
  IF res.exc # "none"
    THEN /\ pc' = "aborted"
         /\ UNCHANGED <<to_visit, all_discovered, dependencies_graph,
                        docker_warnings_map>>
    ELSE /\ pc' = "loop"
         /\ docker_warnings_map' =
              ExtendWarnings(docker_warnings_map, cur, res.docker_warns)
         /\ dependencies_graph' =
              AddChildren(dependencies_graph, cur, res.discovered)
         /\ all_discovered' =
              all_discovered \cup NewlyDiscovered(res.discovered, all_discovered)
         /\ to_visit' =
              to_visit \cup NewlyDiscovered(res.discovered, all_discovered)

\* lines 311-314 recording a warning for a checkout with no action file
InspectAt_NoFileWarns(action_file) ==
  IF action_file = NoPath
    THEN /\ pc' = "loop"
         /\ docker_warnings_map' =
              ExtendWarnings(docker_warnings_map, cur, <<W_could_not_parse>>)
         /\ UNCHANGED <<to_visit, all_discovered, dependencies_graph, inspected>>
    ELSE /\ inspected' = [inspected EXCEPT ![cur] = @ + 1]
         /\ Record(get_actions_and_docker_warnings_from_action_file(action_file))

InspectAt(action_file) ==
  IF action_file = NoPath
    THEN /\ pc' = "loop"
         /\ UNCHANGED <<to_visit, all_discovered, dependencies_graph,
                        docker_warnings_map, inspected>>
    ELSE /\ inspected' = [inspected EXCEPT ![cur] = @ + 1]
         /\ Record(get_actions_and_docker_warnings_from_action_file(action_file))

Inspect ==
  /\ pc = "inspect"
  /\ InspectAt(find_top_level_action_file(clone_repo(cur[1], cur[2], cur[3]).dir))
  /\ UNCHANGED <<repos, workflows, visited, cur, acquired, printed,
                 iterations, in_file, out>>

\* line 326 reached with references still in the worklist
Return_Early ==
  /\ pc = "loop"
  /\ pc' = "returned"
  /\ UNCHANGED <<repos, workflows, to_visit, visited, all_discovered,
                 dependencies_graph, docker_warnings_map, cur, acquired,
                 inspected, printed, iterations, in_file, out>>

\* lines 291 and 326: the worklist is empty, return the triple
Return ==
  /\ pc = "loop"
  /\ to_visit = {}
  /\ pc' = "returned"
  /\ UNCHANGED <<repos, workflows, to_visit, visited, all_discovered,
                 dependencies_graph, docker_warnings_map, cur, acquired,
                 inspected, printed, iterations, in_file, out>>

Next ==
  \/ CloneRootFails
  \/ Seed
  \/ \E r \in Refs : Pop(r)
  \/ Acquire
  \/ Inspect
  \/ Return

Spec == Init /\ [][Next]_vars

(***************************************************************************)
(* The inspector on its own: one call of                                   *)
(* get_actions_and_docker_warnings_from_action_file on an action file of   *)
(* any shape.                                                              *)
(***************************************************************************)
Absent == [t |-> "absent"]

\* a dict entry, none when the key is absent
Field(k, x) == IF x.t = "absent" THEN << >> ELSE (k :> x)

\* the sequences over S of length at most n
RECURSIVE SeqsUpTo(_, _)
SeqsUpTo(S, n) ==
  IF n = 0
    THEN {<< >>}
    ELSE SeqsUpTo(S, n - 1) \cup {Append(q, x) : q \in SeqsUpTo(S, n - 1), x \in S}

S_no_owner == <<"/", "x", "@", "v">>
S_local == <<".", "/", "a">>

UsesShapes ==
  {Absent, Null, Int(0), Int(5), Str(<< >>), Str(U_build), Str(U_shared),
   Str(S_no_owner), Str(S_local), List(<<Str(<<"/">>), Str(<<"@">>)>>)}
StepShapes ==
  {Null, Str(S_echo), Int(5), List(<< >>)}
  \cup {Map(Field("uses", u) @@ ("name" :> Str(S_echo))) : u \in UsesShapes}
StepsShapes ==
  {Absent, Null, Str(S_echo), Map("uses" :> Str(U_build))}
  \cup {List(q) : q \in SeqsUpTo(StepShapes, MaxSteps)}
ImageShapes ==
  {Absent, Null, Int(5), Str(S_echo), Str(S_alpine), Str(S_alpine_pinned),
   Str(S_Dockerfile)}
UsingShapes ==
  {Absent, Null, Int(5), Str(S_node20), Str(S_docker), Str(S_composite)}

RunsMap(using, image, steps) ==
  Map(Field("using", using) @@ Field("image", image) @@ Field("steps", steps))
RunsShapes ==
  {Absent, Null, Str(S_echo), List(<<Str(S_echo)>>)}
  \cup {RunsMap(Str(S_composite), Absent, st) : st \in StepsShapes}
  \cup {RunsMap(Str(S_docker), im, st) :
          im \in ImageShapes, st \in {Absent, List(<<Str(S_echo)>>)}}
  \cup {RunsMap(u, Str(S_alpine), List(<<UsesStep(U_build)>>)) : u \in UsingShapes}
DocShapes ==
  {Null, Str(S_echo), List(<<Str(S_echo)>>)}
  \cup {Map(Field("runs", rn) @@ ("name" :> Str(S_echo))) : rn \in RunsShapes}

L_from_ubuntu == <<"F", "R", "O", "M", " ", "u", "b", "u", "n", "t", "u", ":",
  "2", "0", ".", "0", "4", "\n">>
L_from_pinned == <<"f", "r", "o", "m", " ", "a", "l", "p", "i", "n", "e", "@",
  "s", "h", "a", "2", "5", "6", ":", "a", "b", "\n">>
L_run == <<"R", "U", "N", " ", "m", "a", "k", "e", "\n">>
DockerfileShapes ==
  {Absent, Unreadable, TextFile(<<L_from_pinned, L_run>>),
   TextFile(<<L_from_ubuntu, L_run, L_from_pinned>>)}

\* a file as a directory entry, none when the file is absent
Entry(name, f) == IF "t" \in DOMAIN f THEN << >> ELSE (name :> f)

InspectDirs ==
  {("action.yml" :> af) @@ Entry("Dockerfile", df) :
     af \in {YamlError} \cup {YamlFile(d) : d \in DocShapes},
     df \in DockerfileShapes}
InspectInputs ==
  {[parent |-> dir, name |-> "action.yml"] : dir \in InspectDirs}
  \cup {[parent |-> ("action.yaml" :> YamlError), name |-> "action.yaml"]}

InitInspect ==
  /\ pc = "call"
  /\ in_file \in InspectInputs
  /\ out = NoCall
  /\ repos = [r \in Refs |-> R_no_file]
  /\ workflows = << >>
  /\ to_visit = {}
  /\ visited = {}
  /\ all_discovered = {}
  /\ dependencies_graph = << >>
  /\ docker_warnings_map = << >>
  /\ cur = None
  /\ acquired = [r \in Refs |-> 0]
  /\ inspected = [r \in Refs |-> 0]
  /\ printed = [r \in Refs |-> 0]
  /\ iterations = 0

\* line 316, the call alone
InspectCall ==
  /\ pc = "call"
  /\ out' = get_actions_and_docker_warnings_from_action_file(in_file)
  /\ pc' = "called"
  /\ UNCHANGED <<repos, workflows, to_visit, visited, all_discovered,
                 dependencies_graph, docker_warnings_map, cur, acquired,
                 inspected, printed, iterations, in_file>>

NextInspect == InspectCall

InspectSpec == InitInspect /\ [][NextInspect]_vars

(***************************************************************************)
(* Single calls of the other functions.  The traversal's variables are     *)
(* idle while one call is studied: pc is the position of the call and out  *)
(* its outcome.                                                            *)
(***************************************************************************)
traversal_vars ==
  <<repos, to_visit, visited, all_discovered, dependencies_graph,
    docker_warnings_map, cur, acquired, inspected, printed, iterations>>

Idle ==
  /\ repos = [r \in Refs |-> R_no_file]
  /\ to_visit = {}
  /\ visited = {}
  /\ all_discovered = {}
  /\ dependencies_graph = << >>
  /\ docker_warnings_map = << >>
  /\ cur = None
  /\ acquired = [r \in Refs |-> 0]
  /\ inspected = [r \in Refs |-> 0]
  /\ printed = [r \in Refs |-> 0]
  /\ iterations = 0

(***************************************************************************)
(* The workflow scanner on its own: one call of get_actions_from_workflows *)
(* on workflow files of any shape.                                         *)
(***************************************************************************)
UsesJob(u) == Map([steps |-> List(<<UsesStep(u)>>)])
JobShapes ==
  {Null, Str(S_echo), Int(5), List(<<UsesStep(U_build)>>)}
  \cup {Map(Field("steps", st) @@ ("name" :> Str(S_echo))) : st \in StepsShapes}
JobsShapes ==
  {Absent, Null, Str(S_echo), List(<<UsesJob(U_build)>>)}
  \cup {Map("build" :> j) : j \in JobShapes}
  \cup {Map(("build" :> j) @@ ("test" :> UsesJob(U_shared))) :
          j \in {Null, UsesJob(U_build), UsesJob(S_local), Map([steps |-> Str(S_echo)])}}
WorkflowDocShapes ==
  {Null, Str(S_echo), Int(5), List(<<Str(S_echo)>>)}
  \cup {Map(Field("jobs", js) @@ ("name" :> Str(S_echo))) : js \in JobsShapes}
ScanInputs ==
  {<< >>, <<YamlError>>, <<Unreadable>>,
   <<YamlError, WorkflowFile({U_build})>>,
   <<WorkflowFile({U_build}), WorkflowFile({U_build, U_shared})>>}
  \cup {<<YamlFile(d)>> : d \in WorkflowDocShapes}

InitScan ==
  /\ pc = "scan"
  /\ workflows \in ScanInputs
  /\ in_file = NoPath
  /\ out = NoCall
  /\ Idle

\* line 278, the call alone
ScanCall ==
  /\ pc = "scan"
  /\ out' = get_actions_from_workflows(workflows)
  /\ pc' = "scanned"
  /\ UNCHANGED <<traversal_vars, workflows, in_file>>

NextScan == ScanCall

ScanSpec == InitScan /\ [][NextScan]_vars

(***************************************************************************)
(* The Dockerfile reader on its own: one call of analyze_dockerfile on a   *)
(* Dockerfile of at most MaxLines lines.                                   *)
(***************************************************************************)
L_from_alias == <<"F", "R", "O", "M", " ", "u", "b", "u", "n", "t", "u", ":",
  "2", "0", ".", "0", "4", " ", "A", "S", " ", "b", "u", "i", "l", "d", "\n">>
L_from_pinned_alias == <<"F", "R", "O", "M", " ", "a", "l", "p", "i", "n", "e",
  "@", "s", "h", "a", "2", "5", "6", ":", "a", "b", " ", "A", "S", " ", "b", "a",
  "s", "e", "\n">>
L_from_tab == <<"F", "R", "O", "M", "\t", "u", "b", "u", "n", "t", "u", "\n">>
L_from_spaced == <<" ", " ", "F", "r", "o", "m", " ", " ", "x", ":", "1", " ",
  " ", "\n">>
L_comment == <<"#", " ", "F", "R", "O", "M", " ", "x", "\n">>
L_fromage == <<"F", "R", "O", "M", "A", "G", "E", " ", "x", "\n">>
L_empty == <<"\n">>
LineShapes ==
  {L_from_ubuntu, L_from_pinned, L_run, L_from_alias, L_from_pinned_alias,
   L_from_tab, L_from_spaced, L_comment, L_fromage, L_empty}

DockerfilePath(f) == [parent |-> ("Dockerfile" :> f), name |-> "Dockerfile"]
DockerfileInputs ==
  {DockerfilePath(Unreadable)}
  \cup {DockerfilePath(TextFile(q)) : q \in SeqsUpTo(LineShapes, MaxLines)}

InitDockerfile ==
  /\ pc = "read"
  /\ in_file \in DockerfileInputs
  /\ out = NoCall
  /\ workflows = << >>
  /\ Idle

\* line 207, the call alone
DockerfileCall ==
  /\ pc = "read"
  /\ out' = [exc |-> "none", warnings |-> analyze_dockerfile(in_file)]
  /\ pc' = "analysed"
  /\ UNCHANGED <<traversal_vars, workflows, in_file>>

NextDockerfile == DockerfileCall

DockerfileSpec == InitDockerfile /\ [][NextDockerfile]_vars

(***************************************************************************)
(* The reference codec on its own: is_external_action, parse_uses_value    *)
(* and the two step walks on one uses string, then key_to_str on what was  *)
(* parsed.                                                                 *)
(***************************************************************************)
O_a == <<"a">>
O_a_at_b == <<"a", "@", "b">>
N_b == <<"b">>
N_b_slash_c == <<"b", "/", "c">>
V_v == <<"v">>
V_v_at_w == <<"v", "@", "w">>
V_v_newline == <<"v", "\n">>
V_v_newline_x == <<"v", "\n", "x">>
OwnerShapes == {<< >>, O_a, O_a_at_b, S_MAIN_REPO, <<"o", "r", "g">>}
NameShapes == {<< >>, N_b, N_b_slash_c, <<"b", "_", "c">>}
VersionShapes == {<< >>, V_v, V_v_at_w, V_v_newline, V_v_newline_x}
CodecInputs ==
  {o \o <<"/">> \o n \o <<"@">> \o v :
     o \in OwnerShapes, n \in NameShapes, v \in VersionShapes}
  \cup {<< >>, O_a, S_local, O_a \o <<"/">> \o N_b, O_a \o <<"@">> \o V_v,
        V_v \o <<"@">> \o O_a \o <<"/">> \o N_b}

InitCodec ==
  /\ pc = "codec"
  /\ in_file \in CodecInputs
  /\ out = NoCall
  /\ workflows = << >>
  /\ Idle

\* lines 138-143 and 216-221 on a step whose uses is the string
CodecOutcome(uses_val) ==
  [exc |-> "none",
   external |-> is_external_action(uses_val),
   passed |-> ParseArguments(uses_val),
   parsed |-> parse_uses_value(uses_val),
   workflow |-> WorkflowWalk(<<Map([uses |-> uses_val])>>, 1),
   composite |-> CompositeWalk(<<Map([uses |-> uses_val])>>, 1),
   text |-> << >>]

ParseCall ==
  /\ pc = "codec"
  /\ out' = CodecOutcome(Str(in_file))
  /\ pc' = "parsed"
  /\ UNCHANGED <<traversal_vars, workflows, in_file>>

\* key_to_str on the triple parse_uses_value returned
FormatCall ==
  /\ pc = "parsed"
  /\ out.parsed.exc = "none"
  /\ out' = [out EXCEPT !.text = key_to_str(out.parsed.value)]
  /\ pc' = "formatted"
  /\ UNCHANGED <<traversal_vars, workflows, in_file>>

NextCodec ==
  \/ ParseCall
  \/ FormatCall

CodecSpec == InitCodec /\ [][NextCodec]_vars

(***************************************************************************)
(* The clone path on its own: the directory names clone_repo computes for  *)
(* two references.                                                         *)
(***************************************************************************)
\* line 265
S_initial_repo == <<"i", "n", "i", "t", "i", "a", "l", "_", "r", "e", "p", "o">>

CloneOwners == {O_a, <<"a", "_", "b">>, <<"i", "n", "i", "t", "i", "a", "l">>}
CloneRepos ==
  {N_b, <<"c">>, <<"b", "_", "c">>, N_b_slash_c, <<"r", "e", "p", "o">>}
CloneVersions == {V_v, <<"c", "_", "v">>, V_v_at_w, <<"v", "_", "w">>}
CloneRefs ==
  {<<o, n, v>> : o \in CloneOwners, n \in CloneRepos, v \in CloneVersions}

InitClonePath ==
  /\ pc = "name"
  /\ in_file \in CloneRefs \X CloneRefs
  /\ out = NoCall
  /\ workflows = << >>
  /\ Idle

\* lines 232-233 for each of the two references
ClonePathCall ==
  /\ pc = "name"
  /\ out' = [exc |-> "none",
             first |-> clone_name(in_file[1][1], in_file[1][2], in_file[1][3]),
             second |-> clone_name(in_file[2][1], in_file[2][2], in_file[2][3])]
  /\ pc' = "named"
  /\ UNCHANGED <<traversal_vars, workflows, in_file>>

NextClonePath == ClonePathCall

ClonePathSpec == InitClonePath /\ [][NextClonePath]_vars

(***************************************************************************)
(* What the world of a run declares, independently of the traversal.       *)
(***************************************************************************)
Seeds == get_actions_from_workflows(workflows).found

\* whether clone_repo succeeds on r and its checkout holds an action file
HasActionFile(r) ==
  /\ repos[r].clone_ok
  /\ find_top_level_action_file(repos[r].dir) # NoPath

\* what the inspector gives on r's action file
InspectionOf(r) ==
  get_actions_and_docker_warnings_from_action_file(
    find_top_level_action_file(repos[r].dir))

\* r is acquired and inspected without an exception
InspectedOk(r) == HasActionFile(r) /\ InspectionOf(r).exc = "none"

DeclaredChildren(r) == IF InspectedOk(r) THEN InspectionOf(r).discovered ELSE {}
DeclaredWarnings(r) == IF InspectedOk(r) THEN InspectionOf(r).docker_warns ELSE << >>

RECURSIVE Closure(_)
Closure(S) ==
  LET T == S \cup UNION {DeclaredChildren(r) : r \in S}
  IN IF T = S THEN S ELSE Closure(T)

\* the references reachable from the seed set
Reachable == Closure(Seeds)

\* the child set and the warnings recorded for k, empty when k is no key
ChildSet(k) == IF k \in DOMAIN dependencies_graph THEN dependencies_graph[k] ELSE {}
WarningsAt(k) == IF k \in DOMAIN docker_warnings_map THEN docker_warnings_map[k] ELSE << >>

\* r's iteration of the drain loop has run to its end
Processed(r) ==
  /\ r \in visited
  /\ ~(cur = r /\ pc \in {"acquire", "inspect", "aborted"})

(***************************************************************************)
(* C1: for every reference space the drain loop reaches an empty worklist  *)
(* and returns, after at most as many iterations as there are distinct     *)
(* references discovered: the iterations stay within that number, and a    *)
(* run that has entered the loop is in it until it returns with the        *)
(* worklist empty.                                                         *)
(***************************************************************************)
C1_DrainLoopReturns ==
  /\ iterations <= Cardinality(all_discovered)
  /\ pc \notin {"start", "fatal", "loop", "acquire", "inspect"} =>
       (pc = "returned" /\ to_visit = {})

(***************************************************************************)
(* C2: clone_repo and the inspector are each called at most once for a     *)
(* reference, also for one several parents declare or that is a seed and   *)
(* a child.                                                                *)
(***************************************************************************)
C2_AtMostOnce ==
  \A r \in Refs : acquired[r] <= 1 /\ inspected[r] <= 1

C2_Witness ==
  /\ pc = "returned"
  /\ \E r \in Seeds :
       /\ acquired[r] = 1
       /\ inspected[r] = 1
       /\ Cardinality({p \in Refs \ {r} : r \in ChildSet(p)}) >= 2

(***************************************************************************)
(* C3: at return all_discovered is exactly the set of references reachable *)
(* from the seed set through the children of the actions acquired and      *)
(* inspected.                                                              *)
(***************************************************************************)
C3_DiscoveredIsReachable ==
  pc = "returned" => all_discovered = Reachable

C3_Witness ==
  /\ pc = "returned"
  /\ all_discovered \ Seeds # {}
  /\ Refs \ all_discovered # {}

(***************************************************************************)
(* C4: every child an inspection returns is in the inspected reference's   *)
(* child set, whether or not the child was visited or queued; two actions  *)
(* that reference each other are both keys, each in the other's child set. *)
(***************************************************************************)
C4_EveryEdgeRecorded ==
  \A r \in Refs :
    Processed(r) =>
      /\ r \in DOMAIN dependencies_graph
      /\ DeclaredChildren(r) \subseteq dependencies_graph[r]

C4_Witness ==
  /\ pc = "returned"
  /\ \E a, b \in Refs :
       /\ a # b
       /\ b \in DeclaredChildren(a)
       /\ a \in DeclaredChildren(b)
       /\ b \in ChildSet(a)
       /\ a \in ChildSet(b)

(***************************************************************************)
(* C5: in every state of a run dependencies_graph and docker_warnings_map  *)
(* have the same keys.                                                     *)
(***************************************************************************)
C5_SameKeys ==
  DOMAIN dependencies_graph = DOMAIN docker_warnings_map

C5_Witness ==
  /\ pc = "loop"
  /\ visited # {}
  /\ to_visit # {}
  /\ DOMAIN docker_warnings_map = visited \cup {MAIN_KEY}

(***************************************************************************)
(* C6 as stated: in every state of a run every member of all_discovered is *)
(* a key of dependencies_graph.                                            *)
(***************************************************************************)
C6_DiscoveredAreKeys ==
  all_discovered \subseteq DOMAIN dependencies_graph

(***************************************************************************)
(* C6 amended: in every state of a run every visited reference is a key of *)
(* dependencies_graph, and at return every member of all_discovered is     *)
(* one, also with an empty child set.                                      *)
(***************************************************************************)
C6_VisitedAreKeys ==
  /\ visited \subseteq DOMAIN dependencies_graph
  /\ pc = "returned" => all_discovered \subseteq DOMAIN dependencies_graph

C6_Witness ==
  /\ pc = "returned"
  /\ \E r \in all_discovered : dependencies_graph[r] = {}
  /\ \E r \in all_discovered : dependencies_graph[r] # {}

ExpectedGraph ==
  [k \in Reachable \cup {MAIN_KEY} |->
     IF k = MAIN_KEY THEN Seeds ELSE DeclaredChildren(k)]
ExpectedWarnings ==
  [k \in Reachable \cup {MAIN_KEY} |->
     IF k = MAIN_KEY THEN << >> ELSE DeclaredWarnings(k)]

C8_OrderIndependent ==
  pc = "returned" =>
    /\ all_discovered = Reachable
    /\ dependencies_graph = ExpectedGraph
    /\ docker_warnings_map = ExpectedWarnings

C8_Witness ==
  /\ pc = "returned"
  /\ Cardinality(Seeds) >= 2
  /\ \E a, b \in Seeds : a # b /\ b \in ChildSet(a) /\ a \in ChildSet(b)
  /\ \E r \in Refs : WarningsAt(r) # << >>

(***************************************************************************)
(* C9: the root references actions/checkout@v4 (no definition file) and    *)
(* org/build@v1 (composite, referencing org/shared@v2, a container action  *)
(* with image docker://alpine:3.18).  The graph returned is                *)
(* root -> {checkout, build}, build -> {shared}, checkout -> {},           *)
(* shared -> {}; shared has exactly one warning, which contains the image, *)
(* and every other node has none.                                          *)
(***************************************************************************)
Scenario ==
  /\ workflows = <<WorkflowFile({U_checkout, U_build})>>
  /\ repos[K_checkout] = R_no_file
  /\ repos[K_build] = R_composite({U_shared})
  /\ repos[K_shared] = R_docker_unpinned

C9_EndToEnd ==
  (Scenario /\ pc = "returned") =>
    /\ DOMAIN dependencies_graph = {MAIN_KEY, K_checkout, K_build, K_shared}
    /\ dependencies_graph[MAIN_KEY] = {K_checkout, K_build}
    /\ dependencies_graph[K_build] = {K_shared}
    /\ dependencies_graph[K_checkout] = {}
    /\ dependencies_graph[K_shared] = {}
    /\ DOMAIN docker_warnings_map = {MAIN_KEY, K_checkout, K_build, K_shared}
    /\ Len(docker_warnings_map[K_shared]) = 1
    /\ Contains(docker_warnings_map[K_shared][1], S_alpine)
    /\ \A k \in {MAIN_KEY, K_checkout, K_build} : docker_warnings_map[k] = << >>

C9_Witness ==
  /\ Scenario
  /\ pc = "returned"
  /\ Len(docker_warnings_map[K_shared]) = 1

(***************************************************************************)
(* C10: get_actions_and_docker_warnings_from_action_file never raises:     *)
(* whatever the shape of the definition, the call returns a pair.          *)
(***************************************************************************)
C10_NeverRaises ==
  pc = "called" => out.exc = "none"

(***************************************************************************)
(* C11: get_actions_from_workflows never raises for malformed input: for   *)
(* every shape of the workflow document, of jobs, of a job, of steps, of a *)
(* step and of the uses value the call returns a set of references, the    *)
(* malformed parts giving none.                                            *)
(***************************************************************************)
C11_ScannerNeverRaises ==
  pc = "scanned" =>
    /\ out.exc = "none"
    /\ out.found \subseteq {K_build, K_shared}

(***************************************************************************)
(* C12: a run of recursively_discover_actions ends without returning only  *)
(* when the acquisition of the root repository fails: a run that has ended *)
(* otherwise than by returning ended at the root clone, before any         *)
(* reference was discovered or processed; no anomaly of a transitive node  *)
(* ends it.                                                                *)
(***************************************************************************)
C12_OnlyRootFailureAborts ==
  pc \in {"fatal", "aborted"} =>
    /\ pc = "fatal"
    /\ all_discovered = {}
    /\ visited = {}

(***************************************************************************)
(* The definition an inspector call was given.                             *)
(***************************************************************************)
CalledFile == in_file.parent[in_file.name]
CalledRuns == Get(CalledFile.doc, "runs", EmptyMap)

\* the definition is a mapping whose runs is a mapping with using == "docker"
IsDockerCall ==
  /\ CalledFile.kind = "yaml"
  /\ IsDict(CalledFile.doc)
  /\ IsDict(CalledRuns)
  /\ Get(CalledRuns, "using", Null) = Str(S_docker)

CalledImage == Get(CalledRuns, "image", Null)

\* a str that is a docker:// remote reference
IsRemoteImage(image) == IsStr(image) /\ StartsWith(image.v, S_docker_prefix)

\* s ends with @sha256: and a non-empty digest
HasDigestSuffix(s) ==
  \E i \in 1..Len(s) :
    /\ i + Len(S_sha256) <= Len(s)
    /\ SubSeq(s, i, i + Len(S_sha256) - 1) = S_sha256
    /\ \A j \in (i + Len(S_sha256))..Len(s) : s[j] \notin {"@", "/", " "}

\* s has no @sha256: part at all
HasNoDigestPart(s) ==
  \A i \in 1..Len(s) :
    i + Len(S_sha256) - 1 <= Len(s) => SubSeq(s, i, i + Len(S_sha256) - 1) # S_sha256

FirstSpace(s) ==
  IF \E i \in 1..Len(s) : IsSpace(s[i])
    THEN CHOOSE i \in 1..Len(s) : IsSpace(s[i]) /\ \A j \in 1..(i - 1) : ~IsSpace(s[j])
    ELSE 0

\* the whitespace-separated tokens of s
RECURSIVE Tokens(_)
Tokens(s) ==
  LET t == Strip(s)
      k == FirstSpace(t)
  IN IF t = << >>
       THEN << >>
       ELSE IF k = 0
         THEN <<t>>
         ELSE <<SubSeq(t, 1, k - 1)>> \o Tokens(SubSeq(t, k + 1, Len(t)))

\* the line is a FROM directive with an image argument
IsFromLine(line) ==
  /\ Len(Tokens(line)) >= 2
  /\ Upper(Tokens(line)[1]) = <<"F", "R", "O", "M">>

\* the image argument of a FROM line
ImageArgument(line) == Tokens(line)[2]

\* one warning, quoting the image argument, for each FROM line of
\* lines[i..] whose image argument has no digest
RECURSIVE UnpinnedFromLines(_, _)
UnpinnedFromLines(lines, i) ==
  IF i > Len(lines)
    THEN << >>
    ELSE (IF IsFromLine(lines[i]) /\ ~HasDigestSuffix(ImageArgument(lines[i]))
            THEN <<W_unpinned_from \o ImageArgument(lines[i]) \o <<"'">>>>
            ELSE << >>)
         \o UnpinnedFromLines(lines, i + 1)

(***************************************************************************)
(* C14: analyze_dockerfile emits exactly one warning for each line whose   *)
(* first token, case-insensitively, is FROM and whose image argument has   *)
(* no content digest, and none for any other line; each warning quotes the *)
(* image argument, the image token only.                                   *)
(***************************************************************************)
C14_OneWarningPerUnpinnedFrom ==
  (pc = "analysed" /\ in_file.parent[in_file.name].kind = "text") =>
    out.warnings = UnpinnedFromLines(in_file.parent[in_file.name].lines, 1)

(***************************************************************************)
(* The shape owner/name@version of a string.                               *)
(***************************************************************************)
HasChar(s, c) == \E i \in 1..Len(s) : s[i] = c

\* s is owner/name@version with owner non-empty and free of "/", name
\* non-empty and free of "@", version non-empty
HasReferenceShape(s) ==
  \E i, j \in 1..Len(s) :
    /\ 1 < i /\ i + 1 < j /\ j < Len(s)
    /\ s[i] = "/" /\ s[j] = "@"
    /\ \A k \in 1..(i - 1) : s[k] # "/"
    /\ \A k \in (i + 1)..(j - 1) : s[k] # "@"

(***************************************************************************)
(* C15: round trip of the reference codec: for every string s of the shape *)
(* owner/name@version (owner non-empty and free of "/", name non-empty and *)
(* free of "@", version non-empty) parse_uses_value accepts s and          *)
(* key_to_str of the triple is s again.                                    *)
(***************************************************************************)
C15_RoundTrip ==
  (pc \in {"parsed", "formatted"} /\ HasReferenceShape(in_file)) =>
    /\ out.parsed.exc = "none"
    /\ pc = "formatted" => out.text = in_file

(***************************************************************************)
(* C16: on a uses string s, is_external_action(s) is true exactly when s   *)
(* contains both "/" and "@"; neither the workflow scanner nor the         *)
(* composite walk passes to parse_uses_value a string for which it is      *)
(* false; a string that passes this pre-filter and fails to parse is       *)
(* skipped, giving no reference, and one that parses gives its triple.     *)
(***************************************************************************)
C16_PrefilterAndSkip ==
  pc \in {"parsed", "formatted"} =>
    /\ out.external.exc = "none"
    /\ out.external.value <=> (HasChar(in_file, "/") /\ HasChar(in_file, "@"))
    /\ ~out.external.value => out.passed = {}
    /\ (out.external.value /\ out.parsed.exc # "none") =>
         /\ out.workflow = [exc |-> "none", found |-> {}]
         /\ out.composite = [exc |-> "none", found |-> {}]
    /\ out.parsed.exc = "none" =>
         /\ out.passed = {Str(in_file)}
         /\ out.workflow = [exc |-> "none", found |-> {out.parsed.value}]
         /\ out.composite = [exc |-> "none", found |-> {out.parsed.value}]

C16_Witness ==
  /\ pc = "parsed"
  /\ out.external.value
  /\ out.passed = {Str(in_file)}
  /\ out.parsed.exc = "ValueError"
  /\ out.workflow.found = {}
  /\ out.composite.found = {}

(***************************************************************************)
(* C17: the clone path is a function of the (owner, repo, version) triple  *)
(* and is collision-free: the same reference gives the same path, two      *)
(* distinct references give distinct paths, and no reference gives the     *)
(* root's initial_repo path.                                               *)
(***************************************************************************)
C17_CollisionFree ==
  pc = "named" =>
    /\ in_file[1] = in_file[2] => out.first = out.second
    /\ in_file[1] # in_file[2] => out.first # out.second
    /\ out.first # S_initial_repo
    /\ out.second # S_initial_repo

(***************************************************************************)
(* C18: a reference is added to visited in the step that pops it, before   *)
(* its acquisition is attempted and before any of its children is added    *)
(* to the graph or the worklist, and it is never removed from visited:     *)
(* a reference being acquired or inspected, one acquired before, and one   *)
(* with children is visited; a step never shrinks visited, what it takes   *)
(* from the worklist it leaves visited and not yet acquired, and it calls  *)
(* clone_repo or adds children only for a reference already visited.       *)
(***************************************************************************)
C18_VisitedAtPop ==
  /\ [](\A r \in Refs :
          ((cur = r /\ pc \in {"acquire", "inspect"})
             \/ acquired[r] >= 1
             \/ ChildSet(r) # {}) => r \in visited)
  /\ [][/\ visited \subseteq visited'
        /\ \A r \in to_visit \ to_visit' :
             /\ r \in visited'
             /\ acquired'[r] = 0
             /\ r \notin DOMAIN dependencies_graph
             /\ dependencies_graph'[r] = {}
        /\ \A r \in Refs : acquired'[r] # acquired[r] => r \in visited
        /\ \A r \in Refs :
             (r \in DOMAIN dependencies_graph' /\ dependencies_graph'[r] # {}) =>
               r \in visited
        /\ (pc # "start" /\ to_visit' \ to_visit # {}) =>
             (pc = "inspect" /\ cur \in visited)]_vars

C18_Witness ==
  /\ pc = "acquire"
  /\ cur \in visited
  /\ cur \notin to_visit
  /\ acquired[cur] = 0
  /\ ChildSet(cur) = {}
  /\ DeclaredChildren(cur) # {}
  /\ visited # {cur}

(***************************************************************************)
(* C19: a child an inspection returns is added to the worklist exactly     *)
(* when, at that moment, it is neither visited nor in the worklist; the    *)
(* test "sa not in all_discovered" says the same, all_discovered being     *)
(* the union of visited and to_visit in every state.                       *)
(***************************************************************************)
C19_EnqueueOnlyNew ==
  /\ [](all_discovered = visited \cup to_visit)
  /\ [][(pc = "inspect" /\ pc' = "loop") =>
          /\ to_visit \subseteq to_visit'
          /\ \A sa \in Refs :
               sa \in to_visit' \ to_visit <=>
                 /\ sa \in DeclaredChildren(cur)
                 /\ sa \notin visited
                 /\ sa \notin to_visit]_vars

C19_Witness ==
  /\ pc = "loop"
  /\ cur \in visited
  /\ inspected[cur] = 1
  /\ \E x \in DeclaredChildren(cur) : x \in to_visit /\ x \notin Seeds
  /\ \E y \in DeclaredChildren(cur) : y \in visited /\ y # cur

(***************************************************************************)
(* The definition at the top of a reference's checkout.                    *)
(***************************************************************************)
DefinitionOf(r) == repos[r].dir[find_top_level_action_file(repos[r].dir).name]

\* r's definition is a mapping whose runs is a mapping with using == "docker"
IsDockerAction(r) ==
  /\ HasActionFile(r)
  /\ DefinitionOf(r).kind = "yaml"
  /\ IsDict(DefinitionOf(r).doc)
  /\ IsDict(Get(DefinitionOf(r).doc, "runs", EmptyMap))
  /\ Get(Get(DefinitionOf(r).doc, "runs", EmptyMap), "using", Null) = Str(S_docker)

\* r's definition has a steps field
DeclaresSteps(r) == "steps" \in DOMAIN Get(DefinitionOf(r).doc, "runs", EmptyMap).v

(***************************************************************************)
(* C20: an action whose definition has runs.using == "docker" is a leaf:   *)
(* the inspector returns no child for it whatever its image and steps      *)
(* fields hold, its child set in the graph is empty in every state, and    *)
(* the step that inspects it adds nothing to the worklist or to            *)
(* all_discovered.                                                         *)
(***************************************************************************)
C20_DockerIsLeaf ==
  /\ [](\A r \in Refs :
          IsDockerAction(r) =>
            /\ InspectionOf(r).exc = "none"
            /\ InspectionOf(r).discovered = {}
            /\ ChildSet(r) = {})
  /\ [][(pc = "inspect" /\ IsDockerAction(cur)) =>
          /\ pc' = "loop"
          /\ inspected'[cur] = inspected[cur] + 1
          /\ to_visit' = to_visit
          /\ all_discovered' = all_discovered
          /\ dependencies_graph' = dependencies_graph]_vars

C20_Witness ==
  /\ pc = "returned"
  /\ \E r \in visited :
       /\ IsDockerAction(r)
       /\ DeclaresSteps(r)
       /\ inspected[r] = 1
       /\ ChildSet(r) = {}
  /\ K_build \notin all_discovered

(***************************************************************************)
(* The kind of a reference's definition.                                   *)
(***************************************************************************)
\* r is acquired and its checkout has no action.yml and no action.yaml
HasNoDefinition(r) == repos[r].clone_ok /\ ~HasActionFile(r)

\* the runs.using value of r's definition
UsingOf(r) == Get(Get(DefinitionOf(r).doc, "runs", EmptyMap), "using", Null)

\* r's definition is a mapping whose runs is a mapping
HasRuns(r) ==
  /\ HasActionFile(r)
  /\ DefinitionOf(r).kind = "yaml"
  /\ IsDict(DefinitionOf(r).doc)
  /\ IsDict(Get(DefinitionOf(r).doc, "runs", EmptyMap))

IsCompositeAction(r) == HasRuns(r) /\ UsingOf(r) = Str(S_composite)
IsOtherAction(r) == HasRuns(r) /\ UsingOf(r) \notin {Str(S_docker), Str(S_composite)}

(***************************************************************************)
(* C21: a reference acquired successfully that has no top-level action     *)
(* file, or whose definition has a runs.using other than "docker" and      *)
(* "composite", has an empty child set and an empty warnings sequence once *)
(* its iteration has run, up to and at the return; and a composite         *)
(* definition that is inspected adds no warning.                           *)
(***************************************************************************)
C21_LeafWithoutWarnings ==
  \A r \in Refs :
    Processed(r) =>
      /\ (HasNoDefinition(r) \/ IsOtherAction(r)) =>
           /\ dependencies_graph[r] = {}
           /\ docker_warnings_map[r] = << >>
      /\ HasNoDefinition(r) => inspected[r] = 0
      /\ (IsCompositeAction(r) /\ InspectedOk(r)) => docker_warnings_map[r] = << >>

C21_Witness ==
  /\ pc = "returned"
  /\ \E a, b, c \in visited :
       /\ HasNoDefinition(a) /\ acquired[a] = 1
       /\ IsOtherAction(b) /\ inspected[b] = 1
       /\ IsCompositeAction(c) /\ inspected[c] = 1 /\ ChildSet(c) = {a, b}

(***************************************************************************)
(* C22: in every state of the drain loop to_visit and visited are          *)
(* disjoint, so a popped reference is never already visited and the        *)
(* branch of line 293 that discards it is never taken: every iteration     *)
(* started has marked a reference of its own.                              *)
(***************************************************************************)
C22_WorklistDisjointFromVisited ==
  /\ to_visit \cap visited = {}
  /\ iterations = Cardinality(visited)

C22_Witness ==
  /\ pc = "loop"
  /\ to_visit # {}
  /\ cur \in visited
  /\ inspected[cur] = 1
  /\ \E y \in DeclaredChildren(cur) : y \in visited /\ y # cur /\ cur \in ChildSet(y)

(***************************************************************************)
(* C23: the root key ("__MAIN_REPO__", "", "") is never in to_visit,       *)
(* visited or all_discovered and is never the reference clone_repo is      *)
(* called on: every reference discovered has a non-empty name and version. *)
(* After seeding, the root's child set is the seed set and its warnings    *)
(* entry is empty, for the rest of the run.                                *)
(***************************************************************************)
C23_SentinelApart ==
  /\ MAIN_KEY \notin to_visit \cup visited \cup all_discovered
  /\ cur # MAIN_KEY
  /\ \A r \in all_discovered : r[1] # << >> /\ r[2] # << >> /\ r[3] # << >>
  /\ (pc \in {"loop", "acquire", "inspect", "returned"}
        \/ (pc = "aborted" /\ visited # {})) =>
       /\ dependencies_graph[MAIN_KEY] = Seeds
       /\ docker_warnings_map[MAIN_KEY] = << >>

C23_Witness ==
  /\ pc = "returned"
  /\ Seeds # {}
  /\ dependencies_graph[MAIN_KEY] = Seeds
  /\ all_discovered \ Seeds # {}
  /\ \E r \in visited : docker_warnings_map[r] # << >>
  /\ docker_warnings_map[MAIN_KEY] = << >>

(***************************************************************************)
(* C24: when recursively_discover_actions returns, the keys of             *)
(* dependencies_graph are the visited references and the root key, which   *)
(* are also the discovered references and the root key, and every          *)
(* reference in a child set is a key of the graph.                         *)
(***************************************************************************)
C24_KeysAtReturn ==
  pc = "returned" =>
    /\ DOMAIN dependencies_graph = visited \cup {MAIN_KEY}
    /\ DOMAIN dependencies_graph = all_discovered \cup {MAIN_KEY}
    /\ \A k \in DOMAIN dependencies_graph :
         dependencies_graph[k] \subseteq DOMAIN dependencies_graph

C24_Witness ==
  /\ pc = "returned"
  /\ Cardinality(DOMAIN dependencies_graph) = 4
  /\ Cardinality(Seeds) = 1
  /\ \E r \in visited : ~repos[r].clone_ok
  /\ \E r \in visited : dependencies_graph[r] \ Seeds # {}

(***************************************************************************)
(* C25: the iteration of a popped reference r changes only r's own child   *)
(* set and warnings entry: a step changes the entries of a key only while  *)
(* that key's reference is being inspected, it adds no key but the popped  *)
(* reference's and removes none, and the entries of a reference whose      *)
(* iteration has finished are never changed again.                         *)
(***************************************************************************)
C25_IterationFrame ==
  [][/\ DOMAIN dependencies_graph \subseteq DOMAIN dependencies_graph'
     /\ pc # "start" =>
          DOMAIN dependencies_graph' \ DOMAIN dependencies_graph \subseteq {cur'}
     /\ \A k \in DOMAIN dependencies_graph :
          \/ pc = "inspect" /\ k = cur
          \/ /\ dependencies_graph'[k] = dependencies_graph[k]
             /\ docker_warnings_map'[k] = docker_warnings_map[k]
     /\ \A r \in Refs :
          Processed(r) =>
            /\ dependencies_graph'[r] = dependencies_graph[r]
            /\ docker_warnings_map'[r] = docker_warnings_map[r]]_vars

C25_Witness ==
  /\ pc = "loop"
  /\ cur \in visited
  /\ inspected[cur] = 1
  /\ docker_warnings_map[cur] # << >>
  /\ \E k \in visited \ {cur} :
       /\ inspected[k] = 1
       /\ cur \in dependencies_graph[k]
       /\ docker_warnings_map[k] = << >>
  /\ to_visit # {}

====
